---- MODULE Spec2Model ----
(***************************************************************************)
(* xk6-mongodb (src/mongo.go): the k6 extension that wraps the MongoDB Go  *)
(* driver.  Two specifications:                                            *)
(*                                                                         *)
(*   CodecSpec  the UUID codec (ConvertStringToUuid, ConvertUuidToString)  *)
(*              applied to inputs drawn by its Init;                       *)
(*   Spec       the client wrapper (NewClient and the methods of Client)   *)
(*              run against one session of the driver and one collection.  *)
(*                                                                         *)
(* Strings are sequences of one-character strings; a []byte is a sequence  *)
(* of numbers 0..255.  The driver and the server behind it are not part of *)
(* the repository: the Driver* operators state what the driver call at the *)
(* named line of mongo.go does, following the driver's documentation.      *)
(***************************************************************************)
EXTENDS Integers, Sequences, FiniteSets, TLC

VARIABLES conv, handle, session, coll, nextId, attempts, disconnected, last

vars == <<conv, handle, session, coll, nextId, attempts, disconnected, last>>

clientVars == <<handle, session, coll, nextId, attempts, disconnected, last>>

Range(s) == {s[i] : i \in 1..Len(s)}

(***************************************************************************)
(* Bounds of the model.                                                    *)
(***************************************************************************)
\* longest payload of a primitive.Binary input
MaxLen == 17
\* most characters appended to a generated string input
MaxPad == 1
\* most documents ever inserted into the collection
MaxDocs == 2
\* most calls of NewClient
MaxAttempts == 2

(***************************************************************************)
(* encoding/hex, as mongo.go uses it.                                      *)
(***************************************************************************)
DecDigits == <<"0", "1", "2", "3", "4", "5", "6", "7", "8", "9">>
LowerAF == <<"a", "b", "c", "d", "e", "f">>
UpperAF == <<"A", "B", "C", "D", "E", "F">>

\* hex.EncodeToString's table "0123456789abcdef"
HexTable == DecDigits \o LowerAF

IndexOf(s, c) == CHOOSE i \in 1..Len(s) : s[i] = c

\* the character class [0-9a-fA-F] of the pattern
HexClass == Range(DecDigits) \cup Range(LowerAF) \cup Range(UpperAF)

\* hex.fromHexChar: the value of one hex digit, or not ok
FromHexChar(c) ==
    IF c \in Range(DecDigits) THEN [ok |-> TRUE, v |-> IndexOf(DecDigits, c) - 1]
    ELSE IF c \in Range(LowerAF) THEN [ok |-> TRUE, v |-> IndexOf(LowerAF, c) + 9]
    ELSE IF c \in Range(UpperAF) THEN [ok |-> TRUE, v |-> IndexOf(UpperAF, c) + 9]
    ELSE [ok |-> FALSE, v |-> 0]

\* hex.EncodeToString(bin.Data): two lower-case digits per byte, high nibble first
EncodeToString(data) ==
    [i \in 1..(2 * Len(data)) |->
        IF i % 2 = 1 THEN HexTable[(data[(i + 1) \div 2] \div 16) + 1]
        ELSE HexTable[(data[i \div 2] % 16) + 1]]

\* hex.DecodeString(cleanUUID): the bytes, or an error for an odd length or a
\* character that is no hex digit
DecodeString(s) ==
    IF \E i \in 1..Len(s) : ~FromHexChar(s[i]).ok
    THEN [ok |-> FALSE, data |-> <<>>]
    ELSE IF Len(s) % 2 = 1 THEN [ok |-> FALSE, data |-> <<>>]
    ELSE [ok |-> TRUE,
          data |-> [i \in 1..(Len(s) \div 2) |->
                       FromHexChar(s[2 * i - 1]).v * 16 + FromHexChar(s[2 * i]).v]]

(***************************************************************************)
(* Values and errors of the codec.                                         *)
(***************************************************************************)
\* primitive.Binary{Subtype: st, Data: data}
Binary(st, data) == [Subtype |-> st, Data |-> data]

\* primitive.Binary{}
EmptyBinary == Binary(0, <<>>)

NoError == [kind |-> "nil", str |-> <<>>, num |-> 0]

\* fmt.Errorf("invalid UUID format: %s", uuid)
FormatError(uuid) == [kind |-> "invalid UUID format", str |-> uuid, num |-> 0]

\* fmt.Errorf("error decoding UUID string: %v", err)
DecodeError == [kind |-> "error decoding UUID string", str |-> <<>>, num |-> 0]

\* fmt.Errorf("unsupported binary subtype: %d", bin.Subtype)
SubtypeError(st) == [kind |-> "unsupported binary subtype", str |-> <<>>, num |-> st]

\* fmt.Errorf("invalid UUID binary length: expected 16 bytes, got %d", len(bin.Data))
LengthError(n) == [kind |-> "invalid UUID binary length", str |-> <<>>, num |-> n]

(***************************************************************************)
(* The pattern of ConvertStringToUuid:                                     *)
(*   ^([0-9a-fA-F]{8})-?([0-9a-fA-F]{4})-?([0-9a-fA-F]{4})-?               *)
(*    ([0-9a-fA-F]{4})-?([0-9a-fA-F]{12})$                                 *)
(* A group never matches a dash, so the match is decided left to right.    *)
(***************************************************************************)
\* [0-9a-fA-F]{n} at position i
HexRun(s, i, n) ==
    /\ i + n - 1 <= Len(s)
    /\ \A j \in i..(i + n - 1) : s[j] \in HexClass

\* -? at position i: the position after the dash when there is one
AfterDash(s, i) == IF i <= Len(s) /\ s[i] = "-" THEN i + 1 ELSE i

\* a pattern that leaves A-F out of its character classes
FindStringSubmatchLowerOnly(s) ==
    LET run(i, n) == /\ i + n - 1 <= Len(s)
                     /\ \A j \in i..(i + n - 1) :
                            s[j] \in Range(DecDigits) \cup Range(LowerAF)
        p2 == AfterDash(s, 9)
        p3 == AfterDash(s, p2 + 4)
        p4 == AfterDash(s, p3 + 4)
        p5 == AfterDash(s, p4 + 4)
    IN  IF /\ run(1, 8) /\ run(p2, 4) /\ run(p3, 4) /\ run(p4, 4) /\ run(p5, 12)
           /\ p5 + 12 = Len(s) + 1
        THEN [matched |-> TRUE,
              groups |-> <<SubSeq(s, 1, 8), SubSeq(s, p2, p2 + 3),
                           SubSeq(s, p3, p3 + 3), SubSeq(s, p4, p4 + 3),
                           SubSeq(s, p5, p5 + 11)>>]
        ELSE [matched |-> FALSE, groups |-> <<>>]

\* re.FindStringSubmatch(uuid): the five groups, or no match
FindStringSubmatch(s) ==
    LET p2 == AfterDash(s, 9)
        p3 == AfterDash(s, p2 + 4)
        p4 == AfterDash(s, p3 + 4)
        p5 == AfterDash(s, p4 + 4)
    IN  IF /\ HexRun(s, 1, 8)
           /\ HexRun(s, p2, 4)
           /\ HexRun(s, p3, 4)
           /\ HexRun(s, p4, 4)
           /\ HexRun(s, p5, 12)
           /\ p5 + 12 = Len(s) + 1
        THEN [matched |-> TRUE,
              groups |-> <<SubSeq(s, 1, 8), SubSeq(s, p2, p2 + 3),
                           SubSeq(s, p3, p3 + 3), SubSeq(s, p4, p4 + 3),
                           SubSeq(s, p5, p5 + 11)>>]
        ELSE [matched |-> FALSE, groups |-> <<>>]

\* strings.Join(matches[1:], "")
Join(groups) == groups[1] \o groups[2] \o groups[3] \o groups[4] \o groups[5]

\* Mongo.ConvertStringToUuid
ConvertStringToUuid(uuid) ==
    LET matches == FindStringSubmatch(uuid)
        decoded == DecodeString(Join(matches.groups))
    IN  IF ~matches.matched
        THEN [bin |-> EmptyBinary, err |-> FormatError(uuid)]
        ELSE IF ~decoded.ok
        THEN [bin |-> EmptyBinary, err |-> DecodeError]
        ELSE [bin |-> Binary(4, decoded.data), err |-> NoError]

\* the third and fourth groups taken in the wrong order
SprintfSwapped(hexStr) ==
    SubSeq(hexStr, 1, 8) \o <<"-">> \o SubSeq(hexStr, 9, 12) \o <<"-">>
        \o SubSeq(hexStr, 17, 20) \o <<"-">> \o SubSeq(hexStr, 13, 16) \o <<"-">>
        \o SubSeq(hexStr, 21, 32)

\* fmt.Sprintf("%s-%s-%s-%s-%s", hexStr[0:8], hexStr[8:12], hexStr[12:16],
\*             hexStr[16:20], hexStr[20:32])
Sprintf(hexStr) ==
    SubSeq(hexStr, 1, 8) \o <<"-">> \o SubSeq(hexStr, 9, 12) \o <<"-">>
        \o SubSeq(hexStr, 13, 16) \o <<"-">> \o SubSeq(hexStr, 17, 20) \o <<"-">>
        \o SubSeq(hexStr, 21, 32)

\* the length checked before the subtype
ConvertUuidToStringLengthFirst(bin) ==
    IF Len(bin.Data) # 16 THEN [str |-> <<>>, err |-> LengthError(Len(bin.Data))]
    ELSE IF bin.Subtype # 4 THEN [str |-> <<>>, err |-> SubtypeError(bin.Subtype)]
    ELSE [str |-> Sprintf(EncodeToString(bin.Data)), err |-> NoError]

\* Mongo.ConvertUuidToString
ConvertUuidToString(bin) ==
    IF bin.Subtype # 4 THEN [str |-> <<>>, err |-> SubtypeError(bin.Subtype)]
    ELSE IF Len(bin.Data) # 16 THEN [str |-> <<>>, err |-> LengthError(Len(bin.Data))]
    ELSE [str |-> Sprintf(EncodeToString(bin.Data)), err |-> NoError]

(***************************************************************************)
(* The inputs the codec is applied to.                                     *)
(***************************************************************************)
\* a value of the script: a primitive.Binary or a string
BinValue(b) == [tag |-> "bin", bin |-> b, str |-> <<>>]
StrValue(s) == [tag |-> "str", bin |-> EmptyBinary, str |-> s]
NoValue == [tag |-> "none", bin |-> EmptyBinary, str |-> <<>>]

\* n items, all a except the one at position p, which is b
Pattern(n, a, b, p) == [i \in 1..n |-> IF i = p THEN b ELSE a]

Subtypes == {0, 3, 4, 5}
FillBytes == {0, 255}
OddBytes == {0, 9, 10, 16, 171, 255}

BinInputs ==
    {Binary(st, Pattern(n, a, b, p)) :
        st \in Subtypes, n \in 0..MaxLen, a \in FillBytes, b \in OddBytes,
        p \in 1..MaxLen}

FillChars == {"0", "f", "A"}
OddChars == HexClass \cup {"g", "G", "-", " "}
OddPlaces == {1, 9, 13, 20, 32}
PadChars == {"0", "-", "z"}

\* the 32 characters d with a dash after each of the groups in mask
\* (group g of 8-4-4-4-12 ends at character GroupEnd[g])
GroupEnd == <<8, 12, 16, 20>>
WithDashes(d, mask) ==
    LET piece(g) == SubSeq(d, IF g = 1 THEN 1 ELSE GroupEnd[g - 1] + 1,
                              IF g = 5 THEN Len(d) ELSE GroupEnd[g])
        dash(g) == IF g \in mask THEN <<"-">> ELSE <<>>
    IN  piece(1) \o dash(1) \o piece(2) \o dash(2) \o piece(3) \o dash(3)
            \o piece(4) \o dash(4) \o piece(5)

Padded(s, k, c) == s \o [i \in 1..k |-> c]

StrInputs ==
    {Padded(WithDashes(Pattern(n, a, b, p), mask), k, c) :
        n \in {31, 32}, a \in FillChars, b \in OddChars, p \in OddPlaces,
        mask \in SUBSET (1..4), k \in 0..MaxPad, c \in PadChars}

(***************************************************************************)
(* The codec's state machine: an input, then one conversion, then the      *)
(* opposite conversion of its result.                                      *)
(***************************************************************************)
ConvIdle ==
    [pc |-> "idle", in |-> NoValue, mid |-> NoValue, out |-> NoValue,
     err1 |-> NoError, err2 |-> NoError]

\* the value the next conversion is applied to, and the state after it
Current == IF conv.pc = "input" THEN conv.in ELSE conv.mid
After(val, err) ==
    IF conv.pc = "input"
    THEN [conv EXCEPT !.pc = IF err = NoError THEN "one" ELSE "failed",
                      !.mid = val, !.err1 = err]
    ELSE [conv EXCEPT !.pc = IF err = NoError THEN "two" ELSE "failed",
                      !.out = val, !.err2 = err]

\* a script calls convertUuidToString on a binary value
CallConvertUuidToString ==
    /\ conv.pc \in {"input", "one"}
    /\ Current.tag = "bin"
    /\ LET r == ConvertUuidToString(Current.bin)
       IN  conv' = After(StrValue(r.str), r.err)
    /\ UNCHANGED clientVars

\* a script calls convertStringToUuid on a string
CallConvertStringToUuid ==
    /\ conv.pc \in {"input", "one"}
    /\ Current.tag = "str"
    /\ LET r == ConvertStringToUuid(Current.str)
       IN  conv' = After(BinValue(r.bin), r.err)
    /\ UNCHANGED clientVars

CodecNext == CallConvertUuidToString \/ CallConvertStringToUuid

(***************************************************************************)
(* Documents, filters and updates of the scripts.  A document has a key k  *)
(* (0: the field is absent), a value v and the _id the server gave it.     *)
(***************************************************************************)
Fields == {"k", "v"}

\* the documents a script inserts
DocInputs == [k : {0, 1}, v : {1, 2}]

\* the batches a script inserts
BatchInputs ==
    {<<a>> : a \in {[k |-> 0, v |-> 1], [k |-> 1, v |-> 2]}}
        \cup {<<a, b>> : a \in {[k |-> 0, v |-> 2]}, b \in {[k |-> 1, v |-> 1], [k |-> 1, v |-> 2]}}

\* {field: val}: the filters select on k or on v, the updates set v
FilterDocs == {[field |-> "k", val |-> 1], [field |-> "v", val |-> 1], [field |-> "v", val |-> 2]}
FieldDocs == {[field |-> "v", val |-> 1], [field |-> "v", val |-> 2]}

\* bson.D{{}} and the empty filter of a script: every document matches
EmptyFilter == [field |-> "", val |-> 0]

\* {field: val}
Filters == {EmptyFilter} \cup FilterDocs

\* {"$set": {field: val}}
SetOp(d) == [operator |-> "$set", field |-> d.field, val |-> d.val]
UpdateDocs == {SetOp(d) : d \in FieldDocs}
NoUpdate == [operator |-> "", field |-> "", val |-> 0]

Matches(d, f) == f.field = "" \/ d[f.field] = f.val
Matching(c, f) == {d \in c : Matches(d, f)}
Apply(d, u) == [d EXCEPT ![u.field] = u.val]

\* the document an upsert inserts: the filter's equality fields, then the update
NewDoc(id, f, u) ==
    Apply([id |-> id,
           k |-> IF f.field = "k" THEN f.val ELSE 0,
           v |-> IF f.field = "v" THEN f.val ELSE 0], u)

RECURSIVE Ordered(_, _)
\* the documents of S by _id, ascending (dir = 1) or descending (dir = -1)
Ordered(S, dir) ==
    IF S = {} THEN <<>>
    ELSE LET d == CHOOSE x \in S : \A y \in S : dir * x.id <= dir * y.id
         IN  <<d>> \o Ordered(S \ {d}, dir)

\* options.Find().SetLimit(limit): 0 is no limit
Limited(s, limit) == IF limit > 0 /\ Len(s) > limit THEN SubSeq(s, 1, limit) ELSE s

(***************************************************************************)
(* Errors and results of the driver.                                       *)
(***************************************************************************)
NilErr == "nil"
ErrNoDocuments == "mongo: no documents in result"
ErrClientDisconnected == "client is disconnected"
\* a failure of the server or the network
StoreErrors == {"server error"}
Faults == {NilErr} \cup StoreErrors

\* the faults the store can raise now: a closed session never reaches it
FaultsNow == IF session = "open" THEN Faults ELSE {NilErr}

NoResult == [kind |-> "nil", docs |-> <<>>, n |-> 0, vals |-> {}]
DocsResult(s) == [kind |-> "docs", docs |-> s, n |-> 0, vals |-> {}]
DocResult(d) == [kind |-> "doc", docs |-> <<d>>, n |-> 0, vals |-> {}]
CountResult(n) == [kind |-> "count", docs |-> <<>>, n |-> n, vals |-> {}]
ValuesResult(S) == [kind |-> "values", docs |-> <<>>, n |-> 0, vals |-> S]

\* what one driver call did: its error, the collection and the next _id after
\* it, its result, the documents it inserted, the _id it wrote, and whether the
\* call got to the store
Done(c, nid, res, created, target) ==
    [err |-> NilErr, coll |-> c, nextId |-> nid, res |-> res,
     created |-> created, target |-> target, reached |-> TRUE]
Failed(e, reached) ==
    [err |-> e, coll |-> coll, nextId |-> nextId, res |-> NoResult,
     created |-> 0, target |-> 0, reached |-> reached]

\* a call on the session: refused when the client is disconnected, failed when
\* the store fails, else one of outcomes
Call(fault, outcomes) ==
    IF session # "open" THEN {Failed(ErrClientDisconnected, FALSE)}
    ELSE IF fault # NilErr THEN {Failed(fault, TRUE)}
    ELSE outcomes

\* col.InsertOne(ctx, doc)
DriverInsertOne(doc, fault) ==
    Call(fault, {Done(coll \cup {[id |-> nextId, k |-> doc.k, v |-> doc.v]},
                      nextId + 1, NoResult, 1, nextId)})

RECURSIVE InsertAll(_, _, _)
InsertAll(c, nid, docs) ==
    IF docs = <<>> THEN [coll |-> c, nextId |-> nid]
    ELSE InsertAll(c \cup {[id |-> nid, k |-> Head(docs).k, v |-> Head(docs).v]},
                   nid + 1, Tail(docs))

\* col.InsertMany(ctx, docs): in order; a failure leaves the documents before it
DriverInsertMany(docs, fault) ==
    IF session # "open" THEN {Failed(ErrClientDisconnected, FALSE)}
    ELSE IF fault # NilErr
    THEN {LET part == InsertAll(coll, nextId, SubSeq(docs, 1, n))
          IN  [Failed(fault, TRUE) EXCEPT !.coll = part.coll, !.nextId = part.nextId,
                                          !.created = n] :
            n \in 0..(Len(docs) - 1)}
    ELSE {LET all == InsertAll(coll, nextId, docs)
          IN  Done(all.coll, all.nextId, NoResult, Len(docs), 0)}

\* col.UpdateOne(ctx, filter, update, opts...)
DriverUpdateOne(f, u, opts, fault) ==
    Call(fault,
         IF Matching(coll, f) # {}
         THEN {Done((coll \ {d}) \cup {Apply(d, u)}, nextId, NoResult, 0, d.id) :
                 d \in Matching(coll, f)}
         ELSE IF opts.upsert
         THEN {Done(coll \cup {NewDoc(nextId, f, u)}, nextId + 1, NoResult, 1, nextId)}
         ELSE {Done(coll, nextId, NoResult, 0, 0)})

\* col.UpdateMany(ctx, filter, update)
DriverUpdateMany(f, u, fault) ==
    Call(fault, {Done((coll \ Matching(coll, f)) \cup {Apply(d, u) : d \in Matching(coll, f)},
                      nextId, NoResult, 0, 0)})

\* col.Find(ctx, filter, opts): a cursor over the matching documents, by _id in
\* the order of sort, at most limit of them
DriverFind(f, sort, limit, fault) ==
    Call(fault, {Done(coll, nextId,
                      DocsResult(Limited(Ordered(Matching(coll, f), sort), limit)), 0, 0)})

\* col.Aggregate(ctx, pipeline): a cursor over the pipeline's output; a pipeline
\* is empty or one $match stage
DriverAggregate(pipeline, fault) ==
    Call(fault,
         {Done(coll, nextId,
               DocsResult(Ordered(IF pipeline = <<>> THEN coll
                                  ELSE Matching(coll, pipeline[1].filter), 1)), 0, 0)})

\* cur.All(ctx, &results): the cursor's documents, or the failure of reading them
DriverCursorAll(cur, fault) == IF fault # NilErr THEN Failed(fault, TRUE) ELSE cur

\* col.FindOne(ctx, filter).Decode(&result)
DriverFindOne(f, fault) ==
    Call(fault,
         IF Matching(coll, f) = {} THEN {Failed(ErrNoDocuments, TRUE)}
         ELSE {Done(coll, nextId, DocResult(Ordered(Matching(coll, f), 1)[1]), 0, 0)})

\* col.DeleteOne(ctx, filter)
DriverDeleteOne(f, fault) ==
    Call(fault,
         IF Matching(coll, f) = {} THEN {Done(coll, nextId, NoResult, 0, 0)}
         ELSE {Done(coll \ {d}, nextId, NoResult, 0, d.id) : d \in Matching(coll, f)})

\* col.DeleteMany(ctx, filter)
DriverDeleteMany(f, fault) ==
    Call(fault, {Done(coll \ Matching(coll, f), nextId, NoResult, 0, 0)})

\* col.Distinct(ctx, field, filter)
DriverDistinct(field, f, fault) ==
    Call(fault, {Done(coll, nextId,
                      ValuesResult({d[field] : d \in Matching(coll, f)} \ {0}), 0, 0)})

\* col.Drop(ctx)
DriverDrop(fault) == Call(fault, {Done({}, nextId, NoResult, 0, 0)})

\* col.CountDocuments(ctx, filter)
DriverCountDocuments(f, fault) ==
    Call(fault, {Done(coll, nextId, CountResult(Cardinality(Matching(coll, f))), 0, 0)})

\* col.FindOneAndUpdate(ctx, filter, update, opts): the document before or
\* after the update, as opts.returnDocument says
DriverFindOneAndUpdate(f, u, opts, fault) ==
    Call(fault,
         IF Matching(coll, f) = {} THEN {Failed(ErrNoDocuments, TRUE)}
         ELSE {Done((coll \ {d}) \cup {Apply(d, u)}, nextId,
                    DocResult(IF opts.returnDocument = "after" THEN Apply(d, u) ELSE d),
                    0, d.id) :
                 d \in Matching(coll, f)})

(***************************************************************************)
(* The wrapper.  `last` is the latest call of a script: what the driver    *)
(* did in it (derr, calls, failedAt, reached; for the calls that select or *)
(* write one document also matched, update, created, target) and what the  *)
(* wrapper returned (err, res).  `disconnected` is how the latest          *)
(* Disconnect of the handle returned, "never" before the first.            *)
(***************************************************************************)
\* a nil *Client, and &Client{client: c}; c = 0 is a nil *mongo.Client
NilHandle == [isNil |-> TRUE, client |-> 0]
ClientOf(c) == [isNil |-> FALSE, client |-> c]

NoCall ==
    [op |-> "none", filter |-> EmptyFilter, update |-> NoUpdate,
     derr |-> NilErr, calls |-> 0, failedAt |-> 0, matched |-> 0, created |-> 0,
     target |-> 0, reached |-> FALSE, err |-> NilErr, res |-> NoResult,
     scen |-> 0, keeps |-> FALSE, first |-> 0]

\* the driver's side of a call whose last driver call, number `calls`, ended as r
Trace(op, r, calls) ==
    [NoCall EXCEPT !.op = op, !.derr = r.err, !.calls = calls,
                   !.failedAt = IF r.err # NilErr THEN calls ELSE 0,
                   !.reached = r.reached]

\* the same, with the number of documents that matched filter f when the call
\* was made
TraceMatch(op, f, r, calls) ==
    [Trace(op, r, calls) EXCEPT !.matched = Cardinality(Matching(coll, f))]

\* the same, with the update passed and the _id the call wrote
TraceWrite(op, f, u, r, calls) ==
    [TraceMatch(op, f, r, calls) EXCEPT !.update = u, !.target = r.target,
                                        !.created = r.created]

\* the store after the call
Commit(r) ==
    /\ r.nextId <= MaxDocs + 1
    /\ coll' = r.coll
    /\ nextId' = r.nextId

\* `if err != nil { return err }; return nil`, and the same with a result
ReturnErr(t, r) == [t EXCEPT !.err = IF r.err # NilErr THEN r.err ELSE NilErr]
ReturnBoth(t, r, zero) ==
    [t EXCEPT !.err = IF r.err # NilErr THEN r.err ELSE NilErr,
              !.res = IF r.err # NilErr THEN zero ELSE r.res]

\* mongo.Connect(ctx, clientOptions): a session, or nil and an error
DriverConnect(fault) ==
    IF fault # NilErr THEN [client |-> 0, err |-> fault, session |-> session]
    ELSE [client |-> 1, err |-> NilErr, session |-> "open"]

\* c.client.Disconnect(ctx): closes the session; fails when it is closed already
DriverDisconnect ==
    IF session = "open" THEN [err |-> NilErr, session |-> "closed", reached |-> TRUE]
    ELSE [err |-> ErrClientDisconnected, session |-> session, reached |-> FALSE]

notStore == <<conv, handle, session, attempts, disconnected>>

\* NewClient without its `if err != nil { return nil }`
NewClientUnchecked ==
    /\ handle.isNil
    /\ attempts < MaxAttempts
    /\ \E fault \in Faults :
         LET c == DriverConnect(fault)
         IN  /\ handle' = ClientOf(c.client)
             /\ session' = c.session
             /\ last' = [NoCall EXCEPT !.op = "NewClient",
                                       !.derr = c.err, !.calls = 1,
                                       !.failedAt = IF c.err # NilErr THEN 1 ELSE 0,
                                       !.reached = TRUE]
    /\ attempts' = attempts + 1
    /\ UNCHANGED <<conv, coll, nextId, disconnected>>

\* Mongo.NewClient
NewClient ==
    /\ handle.isNil
    /\ attempts < MaxAttempts
    /\ \E fault \in Faults :
         LET c == DriverConnect(fault)
         IN  /\ handle' = IF c.err # NilErr THEN NilHandle ELSE ClientOf(c.client)
             /\ session' = c.session
             /\ last' = [NoCall EXCEPT !.op = "NewClient",
                                       !.derr = c.err, !.calls = 1,
                                       !.failedAt = IF c.err # NilErr THEN 1 ELSE 0,
                                       !.reached = TRUE]
    /\ attempts' = attempts + 1
    /\ UNCHANGED <<conv, coll, nextId, disconnected>>

\* Insert returning a new error that quotes the driver's
InsertWrapping ==
    /\ ~handle.isNil
    /\ \E doc \in DocInputs, fault \in FaultsNow :
         \E r \in DriverInsertOne(doc, fault) :
            /\ Commit(r)
            /\ last' = [Trace("Insert", r, 1)
                           EXCEPT !.err = IF r.err # NilErr THEN "insert failed"
                                          ELSE NilErr]
    /\ UNCHANGED notStore

\* Client.Insert
Insert ==
    /\ ~handle.isNil
    /\ \E doc \in DocInputs, fault \in FaultsNow :
         \E r \in DriverInsertOne(doc, fault) :
            /\ Commit(r)
            /\ last' = ReturnErr(Trace("Insert", r, 1), r)
    /\ UNCHANGED notStore

\* Client.InsertMany
InsertMany ==
    /\ ~handle.isNil
    /\ \E docs \in BatchInputs, fault \in FaultsNow :
         \E r \in DriverInsertMany(docs, fault) :
            /\ Commit(r)
            /\ last' = ReturnErr(Trace("InsertMany", r, 1), r)
    /\ UNCHANGED notStore

\* options.Update().SetUpsert(true)
UpsertUnset == [upsert |-> FALSE]
UpsertOptions == [upsert |-> TRUE]

\* no options
NoOptions == [upsert |-> FALSE]

\* whether update u leaves a document that matches f matching it
Keeps(f, u) == u.field # f.field \/ u.val = f.val

\* Client.Upsert.  scen numbers the calls of the scenario "Upsert where nothing
\* matches, then Upsert again with the same filter and another update"; first is
\* the _id the first of them wrote, keeps whether its updates keep the filter's
\* fields
Upsert ==
    /\ ~handle.isNil
    /\ \E f \in Filters, u \in UpdateDocs, fault \in FaultsNow :
         \E r \in DriverUpdateOne(f, u, UpsertOptions, fault) :
            LET t == ReturnErr([TraceWrite("Upsert", f, u, r, 1) EXCEPT !.filter = f], r)
                second == /\ last.op = "Upsert" /\ last.scen = 1
                          /\ last.filter = f /\ last.update # u
                scen == IF t.err # NilErr THEN 0
                        ELSE IF second THEN 2
                        ELSE IF t.matched = 0 THEN 1 ELSE 0
            IN  /\ Commit(r)
                /\ last' = [t EXCEPT !.scen = scen,
                                     !.keeps = IF scen = 2 THEN last.keeps /\ Keeps(f, u)
                                               ELSE scen = 1 /\ Keeps(f, u),
                                     !.first = IF scen = 2 THEN last.first
                                               ELSE IF scen = 1 THEN r.target ELSE 0]
    /\ UNCHANGED notStore

\* Client.Find
Find ==
    /\ ~handle.isNil
    /\ \E f \in Filters, sort \in {1, -1}, limit \in 0..1, fault \in FaultsNow, at \in 1..2 :
         /\ fault = NilErr => at = 1
         /\ \E cur \in DriverFind(f, sort, limit, IF at = 1 THEN fault ELSE NilErr) :
              LET r == IF cur.err # NilErr THEN cur
                       ELSE DriverCursorAll(cur, IF at = 2 THEN fault ELSE NilErr)
                  calls == IF cur.err # NilErr THEN 1 ELSE 2
              IN  /\ Commit(r)
                  /\ last' = ReturnBoth(Trace("Find", r, calls), r, NoResult)
    /\ UNCHANGED notStore

\* Client.Aggregate
Aggregate ==
    /\ ~handle.isNil
    /\ \E pipeline \in {<<>>} \cup {<<[stage |-> "$match", filter |-> f]>> : f \in Filters},
          fault \in FaultsNow, at \in 1..2 :
         /\ fault = NilErr => at = 1
         /\ \E cur \in DriverAggregate(pipeline, IF at = 1 THEN fault ELSE NilErr) :
              LET r == IF cur.err # NilErr THEN cur
                       ELSE DriverCursorAll(cur, IF at = 2 THEN fault ELSE NilErr)
                  calls == IF cur.err # NilErr THEN 1 ELSE 2
                  f == IF pipeline = <<>> THEN EmptyFilter ELSE pipeline[1].filter
              IN  /\ Commit(r)
                  /\ last' = ReturnBoth(Trace("Aggregate", r, calls), r, NoResult)
    /\ UNCHANGED notStore

\* Client.FindOne
FindOne ==
    /\ ~handle.isNil
    /\ \E f \in Filters, fault \in FaultsNow :
         \E r \in DriverFindOne(f, fault) :
            /\ Commit(r)
            /\ last' = ReturnBoth(Trace("FindOne", r, 1), r, NoResult)
    /\ UNCHANGED notStore

\* UpdateOne with the options of Upsert
UpdateOneUpserting ==
    /\ ~handle.isNil
    /\ \E f \in Filters, data \in UpdateDocs, fault \in FaultsNow :
         \E r \in DriverUpdateOne(f, data, UpsertOptions, fault) :
            /\ Commit(r)
            /\ last' = ReturnErr(TraceMatch("UpdateOne", f, r, 1), r)
    /\ UNCHANGED notStore

\* Client.UpdateOne
UpdateOne ==
    /\ ~handle.isNil
    /\ \E f \in Filters, data \in UpdateDocs, fault \in FaultsNow :
         \E r \in DriverUpdateOne(f, data, NoOptions, fault) :
            /\ Commit(r)
            /\ last' = ReturnErr(TraceMatch("UpdateOne", f, r, 1), r)
    /\ UNCHANGED notStore

\* Client.UpdateMany: update := bson.D{{"$set", data}}
UpdateMany ==
    /\ ~handle.isNil
    /\ \E f \in Filters, data \in FieldDocs, fault \in FaultsNow :
         LET update == SetOp(data)
         IN  \E r \in DriverUpdateMany(f, update, fault) :
                /\ Commit(r)
                /\ last' = ReturnErr(Trace("UpdateMany", r, 1), r)
    /\ UNCHANGED notStore

\* Client.FindAll
FindAll ==
    /\ ~handle.isNil
    /\ \E fault \in FaultsNow, at \in 1..2 :
         /\ fault = NilErr => at = 1
         /\ \E cur \in DriverFind(EmptyFilter, 1, 0, IF at = 1 THEN fault ELSE NilErr) :
              LET r == IF cur.err # NilErr THEN cur
                       ELSE DriverCursorAll(cur, IF at = 2 THEN fault ELSE NilErr)
                  calls == IF cur.err # NilErr THEN 1 ELSE 2
              IN  /\ Commit(r)
                  /\ last' = ReturnBoth(Trace("FindAll", r, calls),
                                        r, NoResult)
    /\ UNCHANGED notStore

\* Client.DeleteOne
DeleteOne ==
    /\ ~handle.isNil
    /\ \E f \in Filters, fault \in FaultsNow :
         \E r \in DriverDeleteOne(f, fault) :
            /\ Commit(r)
            /\ last' = ReturnErr(TraceMatch("DeleteOne", f, r, 1), r)
    /\ UNCHANGED notStore

\* Client.DeleteMany
DeleteMany ==
    /\ ~handle.isNil
    /\ \E f \in Filters, fault \in FaultsNow :
         \E r \in DriverDeleteMany(f, fault) :
            /\ Commit(r)
            /\ last' = ReturnErr(TraceMatch("DeleteMany", f, r, 1), r)
    /\ UNCHANGED notStore

\* Client.Distinct
Distinct ==
    /\ ~handle.isNil
    /\ \E field \in Fields, f \in Filters, fault \in FaultsNow :
         \E r \in DriverDistinct(field, f, fault) :
            /\ Commit(r)
            /\ last' = ReturnBoth(Trace("Distinct", r, 1), r, NoResult)
    /\ UNCHANGED notStore

\* Client.DropCollection
DropCollection ==
    /\ ~handle.isNil
    /\ \E fault \in FaultsNow :
         \E r \in DriverDrop(fault) :
            /\ Commit(r)
            /\ last' = ReturnErr(Trace("DropCollection", r, 1), r)
    /\ UNCHANGED notStore

\* Client.CountDocuments: `return 0, err` on a failure
CountDocuments ==
    /\ ~handle.isNil
    /\ \E f \in Filters, fault \in FaultsNow :
         \E r \in DriverCountDocuments(f, fault) :
            /\ Commit(r)
            /\ last' = ReturnBoth(Trace("CountDocuments", r, 1), r,
                                  CountResult(0))
    /\ UNCHANGED notStore

\* the driver's default, options.Before
ReturnBefore == [returnDocument |-> "before"]
\* options.FindOneAndUpdate().SetReturnDocument(options.After)
FindOneAndUpdateOptions == [returnDocument |-> "after"]

\* Client.FindOneAndUpdate
FindOneAndUpdate ==
    /\ ~handle.isNil
    /\ \E f \in Filters, u \in UpdateDocs, fault \in FaultsNow :
         \E r \in DriverFindOneAndUpdate(f, u, FindOneAndUpdateOptions, fault) :
            /\ Commit(r)
            /\ last' = ReturnBoth(TraceWrite("FindOneAndUpdate", f, u, r, 1), r, NoResult)
    /\ UNCHANGED notStore

\* Disconnect that returns without the driver's Disconnect
DisconnectSkipped ==
    /\ ~handle.isNil
    /\ last' = [NoCall EXCEPT !.op = "Disconnect"]
    /\ disconnected' = "returned nil"
    /\ UNCHANGED <<conv, handle, session, attempts, coll, nextId>>

\* Client.Disconnect
Disconnect ==
    /\ ~handle.isNil
    /\ LET r == DriverDisconnect
       IN  /\ session' = r.session
           /\ last' = [NoCall EXCEPT !.op = "Disconnect", !.derr = r.err, !.calls = 1,
                                     !.failedAt = IF r.err # NilErr THEN 1 ELSE 0,
                                     !.reached = r.reached,
                                     !.err = IF r.err # NilErr THEN r.err ELSE NilErr]
           /\ disconnected' = IF r.err # NilErr THEN "returned error" ELSE "returned nil"
    /\ UNCHANGED <<conv, handle, attempts, coll, nextId>>

ClientInit ==
    /\ handle = NilHandle
    /\ session = "none"
    /\ coll = {}
    /\ nextId = 1
    /\ attempts = 0
    /\ disconnected = "never"
    /\ last = NoCall

CodecInit ==
    /\ conv \in {[ConvIdle EXCEPT !.pc = "input", !.in = v] :
                    v \in {BinValue(b) : b \in BinInputs} \cup {StrValue(s) : s \in StrInputs}}
    /\ ClientInit

CodecSpec == CodecInit /\ [][CodecNext]_vars

(***************************************************************************)
(* The properties.                                                         *)
(***************************************************************************)
NotDash(c) == c # "-"
StripDashes(s) == SelectSeq(s, NotDash)
IsHex(c) == c \in HexClass
LowerOf(c) == IF c \in Range(UpperAF) THEN LowerAF[IndexOf(UpperAF, c)] ELSE c
NibbleOf(c) == IndexOf(HexTable, LowerOf(c)) - 1

\* 32 hex digits with no dash, or 36 characters with the four dashes of 8-4-4-4-12
Undashed(s) == Len(s) = 32 /\ \A i \in 1..32 : IsHex(s[i])
Dashed(s) ==
    /\ Len(s) = 36
    /\ \A i \in 1..36 : IF i \in {9, 14, 19, 24} THEN s[i] = "-" ELSE IsHex(s[i])
ValidLayout(s) == Undashed(s) \/ Dashed(s)

\* the lower-case dashed form of the hex digits of s, and the bytes they spell
CanonicalForm(s) ==
    LET d == StripDashes(s)
    IN  WithDashes([i \in 1..Len(d) |-> LowerOf(d[i])], {1, 2, 3, 4})
DigitBytes(s) ==
    LET d == StripDashes(s)
    IN  [i \in 1..16 |-> NibbleOf(d[2 * i - 1]) * 16 + NibbleOf(d[2 * i])]

ValidIdentifier(b) == b.Subtype = 4 /\ Len(b.Data) = 16

\* C1: an Identifier with subtype 4 and 16 bytes is stringified without error,
\* the string is parsed back without error, and the Identifier parsed back has
\* subtype 4 and the same 16 bytes.
C1_RoundTrip ==
    (conv.in.tag = "bin" /\ ValidIdentifier(conv.in.bin)) =>
        /\ conv.pc # "failed"
        /\ conv.pc \in {"one", "two"} => conv.err1 = NoError /\ Len(conv.mid.str) = 36
        /\ conv.pc = "two" =>
              /\ conv.err2 = NoError
              /\ conv.out.bin.Subtype = 4
              /\ conv.out.bin.Data = conv.in.bin.Data

C1_Witness ==
    /\ conv.pc = "two"
    /\ conv.in.tag = "bin"
    /\ ValidIdentifier(conv.in.bin)
    /\ conv.in.bin.Data[1] = 255
    /\ conv.in.bin.Data[9] = 171
    /\ conv.out.bin = conv.in.bin

\* C2: a string of 32 hex digits, dashed 8-4-4-4-12 or undashed, in any letter
\* case, is parsed without error to the bytes its digits spell, whatever the case
\* and the dashes; stringifying the result gives the 36-character lower-case
\* dashed form of the same digits.
C2_Canonical ==
    (conv.in.tag = "str" /\ ValidLayout(conv.in.str)) =>
        /\ conv.pc # "failed"
        /\ conv.pc \in {"one", "two"} =>
              /\ conv.err1 = NoError
              /\ conv.mid.bin = Binary(4, DigitBytes(conv.in.str))
        /\ conv.pc = "two" =>
              /\ conv.err2 = NoError
              /\ Len(conv.out.str) = 36
              /\ conv.out.str = CanonicalForm(conv.in.str)

C2_Witness ==
    /\ conv.pc = "two"
    /\ conv.in.tag = "str"
    /\ Undashed(conv.in.str)
    /\ \E i \in 1..32 : conv.in.str[i] \in Range(UpperAF)
    /\ \E i \in 1..32 : conv.in.str[i] \in Range(LowerAF)
    /\ conv.out.str = CanonicalForm(conv.in.str)
    /\ conv.out.str # conv.in.str

\* the malformed inputs C3 names
WrongDigitCount(s) == Len(SelectSeq(s, IsHex)) # 32
HasNonHex(s) == \E i \in 1..Len(s) : ~IsHex(s[i]) /\ s[i] # "-"
PartialDashes(s) ==
    /\ Undashed(StripDashes(s))
    /\ \E mask \in SUBSET (1..4) :
          /\ Cardinality(mask) \in 1..3
          /\ s = WithDashes(StripDashes(s), mask)

\* C3: ConvertStringToUuid fails with a format error and returns no Identifier
\* for every string with a wrong number of hex digits, with a character that is
\* no hex digit, or with some but not all of the four dashes of 8-4-4-4-12.
C3_RejectsMalformed ==
    (/\ conv.in.tag = "str"
     /\ conv.pc # "input"
     /\ \/ WrongDigitCount(conv.in.str)
        \/ HasNonHex(conv.in.str)
        \/ PartialDashes(conv.in.str)) =>
        /\ conv.err1 = FormatError(conv.in.str)
        /\ conv.mid.bin = EmptyBinary

\* C4: ConvertUuidToString returns an error and the empty string when the
\* subtype is not 4 (the unsupported-subtype error, also when the length is
\* wrong too) or the payload is not 16 bytes (the invalid-length error), and
\* succeeds for subtype 4 with 16 bytes.
C4_RejectsInvalidBinary ==
    (conv.in.tag = "bin" /\ conv.pc # "input") =>
        LET b == conv.in.bin
        IN  /\ b.Subtype # 4 =>
                 conv.err1 = SubtypeError(b.Subtype) /\ conv.mid.str = <<>>
            /\ (b.Subtype = 4 /\ Len(b.Data) # 16) =>
                 conv.err1 = LengthError(Len(b.Data)) /\ conv.mid.str = <<>>
            /\ ValidIdentifier(b) => conv.err1 = NoError /\ conv.mid.str # <<>>

C4_Witness ==
    /\ conv.pc = "failed"
    /\ conv.in.tag = "bin"
    /\ conv.in.bin.Subtype = 3
    /\ Len(conv.in.bin.Data) = 15
    /\ conv.err1 = SubtypeError(3)

ClientOps ==
    {"Insert", "InsertMany", "Upsert", "Find", "FindAll", "FindOne", "Aggregate",
     "UpdateOne", "UpdateMany", "DeleteOne", "DeleteMany", "Distinct",
     "CountDocuments", "DropCollection", "FindOneAndUpdate", "Disconnect"}

\* C5: NewClient makes one call of mongo.Connect; it returns nil exactly when
\* that call fails, and otherwise a handle on the session the call opened; no
\* handle with a nil session is ever held.
C5_NilOrConnected ==
    /\ handle.isNil \/ (handle.client = 1 /\ session \in {"open", "closed"})
    /\ last.op = "NewClient" =>
          /\ last.calls = 1
          /\ handle.isNil <=> last.derr # NilErr
          /\ ~handle.isNil => session = "open"

C5_Witness ==
    /\ last.op = "NewClient"
    /\ last.derr \in StoreErrors
    /\ handle.isNil
    /\ attempts = 1

\* the value a failing call returns with its error: 0 for CountDocuments, nil
\* for the others
ZeroResult(op) == IF op = "CountDocuments" THEN CountResult(0) ELSE NoResult

\* C6: every operation of the client returns the error of its driver call as
\* it is, with no result and with no driver call after the failing one, and
\* returns no error when its driver calls succeed.
C6_ErrorsPropagate ==
    last.op \in ClientOps =>
        /\ last.err = last.derr
        /\ last.derr # NilErr =>
              /\ last.res = ZeroResult(last.op)
              /\ last.failedAt >= 1
              /\ last.calls = last.failedAt
        /\ last.derr = NilErr => last.failedAt = 0

C6_Witness ==
    /\ last.op = "Find"
    /\ last.calls = 2
    /\ last.failedAt = 2
    /\ last.err \in StoreErrors
    /\ last.res = NoResult

CountNow(f) == Cardinality(Matching(coll, f))

\* C7 as claimed: from a collection where nothing matches f, a successful
\* Upsert(f, u1) creates one document and CountDocuments(f) is 1; a following
\* successful Upsert(f, u2), u2 # u1, creates none, writes the same document and
\* leaves CountDocuments(f) at 1.
C7_UpsertOnceAnyUpdate ==
    last.op = "Upsert" =>
        /\ last.scen = 1 => last.created = 1 /\ CountNow(last.filter) = 1
        /\ last.scen = 2 =>
              /\ last.created = 0
              /\ last.target = last.first
              /\ CountNow(last.filter) = 1

\* C7, amended: the same, for updates u1 and u2 that leave the fields f tests
\* at the values f asks for.
C7_UpsertOnce ==
    (last.op = "Upsert" /\ last.keeps) =>
        /\ last.scen = 1 => last.created = 1 /\ CountNow(last.filter) = 1
        /\ last.scen = 2 =>
              /\ last.created = 0
              /\ last.target = last.first
              /\ CountNow(last.filter) = 1

C7_Witness ==
    /\ last.op = "Upsert"
    /\ last.scen = 2
    /\ last.keeps
    /\ last.filter = [field |-> "k", val |-> 1]
    /\ Cardinality(coll) = 2
    /\ CountNow(last.filter) = 1

\* C8: FindOneAndUpdate on a filter that matches nothing returns an error and
\* no document; when a document matches, the call does not fail for want of a
\* match, and the document it returns is the one it wrote, as the collection
\* now holds it, with the update applied.
C8_ReturnsUpdated ==
    last.op = "FindOneAndUpdate" =>
        /\ last.matched = 0 => last.err # NilErr /\ last.res = NoResult
        /\ last.matched > 0 => last.err # ErrNoDocuments
        /\ last.err = NilErr =>
              /\ last.matched > 0
              /\ last.res.kind = "doc"
              /\ last.res.docs[1] \in coll
              /\ last.res.docs[1].id = last.target
              /\ last.res.docs[1][last.update.field] = last.update.val

C8_Witness ==
    /\ last.op = "FindOneAndUpdate"
    /\ last.err = NilErr
    /\ last.matched = 2
    /\ last.update = SetOp([field |-> "v", val |-> 2])
    /\ \E d \in coll : d.v = 1 /\ d.id # last.target
    /\ last.res.docs[1].v = 2

\* C9: a DeleteMany, DeleteOne or UpdateOne whose filter matches no document
\* leaves the collection as it was and does not fail for want of a match: it
\* returns nil unless the driver call itself failed (the store failed, or the
\* client was disconnected).
C9_NoMatchNoChange ==
    [][(/\ last' # last
        /\ last'.op \in {"DeleteMany", "DeleteOne", "UpdateOne"}
        /\ last'.matched = 0) =>
            /\ coll' = coll
            /\ last'.err \in {NilErr, ErrClientDisconnected} \cup StoreErrors
            /\ last'.err \in StoreErrors => session = "open"
            /\ last'.err = ErrClientDisconnected => session # "open"]_vars

C9_Witness ==
    /\ last.op = "DeleteMany"
    /\ last.matched = 0
    /\ last.err = NilErr
    /\ last.reached
    /\ Cardinality(coll) = 2

Init ==
    /\ conv = ConvIdle
    /\ ClientInit

Next ==
    \/ NewClient
    \/ Insert
    \/ InsertMany
    \/ Upsert
    \/ Find
    \/ Aggregate
    \/ FindOne
    \/ UpdateOne
    \/ UpdateMany
    \/ FindAll
    \/ DeleteOne
    \/ DeleteMany
    \/ Distinct
    \/ DropCollection
    \/ CountDocuments
    \/ FindOneAndUpdate
    \/ Disconnect

Spec == Init /\ [][Next]_vars
====
